---- MODULE Spec2Model ----
(***************************************************************************)
(* Model of the login flow component Home of src/app/page.tsx: the React   *)
(* state of the component, its three submit handlers (each split at its    *)
(* await into the part that issues the request and the part that resumes   *)
(* on the response or in the catch block), handleBack and the onChange     *)
(* handlers of the three inputs.                                           *)
(***************************************************************************)
EXTENDS Integers, Sequences, FiniteSets, TLC

\* ---------------------------------------------------------------- bounds
\* Longest text a user types into an input.
MaxLen == 1
\* Number of distinct session ids the server can issue.
MaxSessions == 2

\* ---------------------------------------------------------------- values
\* null / undefined / an absent JSON field
Null == "<null>"

\* Characters a user can type: a blank and a visible character.
Chars == {" ", "a"}

RECURSIVE TextsOfLen(_)
TextsOfLen(n) ==
  IF n = 0 THEN {<<>>}
  ELSE {Append(t, c) : t \in TextsOfLen(n - 1), c \in Chars}

\* Values of an input element, as sequences of characters.
Texts == UNION {TextsOfLen(n) : n \in 0..MaxLen}

SessionIds == {"s" \o ToString(i) : i \in 1..MaxSessions}

ChallengeTypes == {"EMAIL", "SMS", "APP", "PUSH", "FIDO"}

\* challengeMetadata objects; NullMetadata is null (or the field is absent).
NullMetadata == [isNull |-> TRUE]

Metadatas == {[officeVerificationStep |-> "EMAIL_ADDRESS"],
              [officeVerificationStep |-> "EMAIL_ADDRESS",
               maskedEmail |-> "a***@x.com", hasCodeLink |-> TRUE],
              [officeVerificationStep |-> "EMAIL_OTP"]}

\* JavaScript m?.f on an object-or-null value.
Field(m, f) == IF f \in DOMAIN m THEN m[f] ELSE Null

\* JavaScript m || null on an object-or-null value.
OrNull(m) == IF m = NullMetadata THEN NullMetadata ELSE m

Statuses == {Null, "requires_password", "authenticated"}

Messages == {Null, "", "wrong"}

\* ------------------------------------------------------- pure functions
\* String.prototype.trim: strips blanks at both ends.
RECURSIVE TrimStart(_)
TrimStart(s) ==
  IF s # <<>> /\ Head(s) = " " THEN TrimStart(Tail(s)) ELSE s

RECURSIVE TrimEnd(_)
TrimEnd(s) ==
  IF s # <<>> /\ s[Len(s)] = " " THEN TrimEnd(SubSeq(s, 1, Len(s) - 1)) ELSE s

Trim(s) == TrimEnd(TrimStart(s))

\* JavaScript truthiness of a string-or-null value.
Truthy(v) == v # Null /\ v # ""

\* JavaScript a || b on string-or-null values.
Or(a, b) == IF Truthy(a) THEN a ELSE b

RemoveAt(s, i) == SubSeq(s, 1, i - 1) \o SubSeq(s, i + 1, Len(s))

\* ---------------------------------------------------------------- state
VARIABLES
  step,               \* "email" | "password" | "2fa" | "success"
  email,              \* text of the identifier input
  password,           \* text of the password input
  twoFACode,          \* text of the second factor input
  sessionId,          \* session id or Null
  isLoading,          \* BOOLEAN
  error,              \* message or Null
  challengeType,      \* challenge type or Null
  challengeMetadata,  \* metadata record or NullMetadata
  requests,           \* fetch calls awaiting their response
  event               \* the handler that ran last, and the response it got

progVars == <<step, email, password, twoFACode, sessionId, isLoading, error,
              challengeType, challengeMetadata>>

vars == <<step, email, password, twoFACode, sessionId, isLoading, error,
          challengeType, challengeMetadata, requests, event>>

NoData == [absent |-> TRUE]

Event(op, admitted, data) == [op |-> op, admitted |-> admitted, data |-> data]

\* ------------------------------------------------------ server responses
InitiateResponses ==
  [success : {TRUE}, sessionId : SessionIds, status : Statuses,
   message : {Null}]
  \cup
  [success : {FALSE}, sessionId : {Null}, status : {Null},
   message : Messages]

ChallengeFields ==
  {[challengeType |-> Null, challengeMetadata |-> NullMetadata]}
  \cup
  [challengeType : ChallengeTypes, challengeMetadata : Metadatas \cup {NullMetadata}]

PasswordResponses ==
  {[success |-> s, status |-> st, challengeType |-> c.challengeType,
    challengeMetadata |-> c.challengeMetadata, message |-> m] :
     s \in BOOLEAN, st \in {Null, "authenticated"}, c \in ChallengeFields,
     m \in {Null, "wrong"}}

TwoFAResponses ==
  {[success |-> s, challengeType |-> c.challengeType,
    challengeMetadata |-> c.challengeMetadata, message |-> m] :
     s \in BOOLEAN, c \in ChallengeFields, m \in Messages}

\* ------------------------------------------------------------------ Init
Init ==
  /\ step = "email"
  /\ email = <<>>
  /\ password = <<>>
  /\ twoFACode = <<>>
  /\ sessionId = Null
  /\ isLoading = FALSE
  /\ error = Null
  /\ challengeType = Null
  /\ challengeMetadata = NullMetadata
  /\ requests = <<>>
  /\ event = Event("mount", TRUE, NoData)

\* ------------------------------------------------------- input handlers
\* onChange of the identifier input; the input is rendered at step "email"
\* and disabled while isLoading.
setEmail(v) ==
  /\ step = "email"
  /\ ~isLoading
  /\ email' = v
  /\ event' = Event("setEmail", TRUE, NoData)
  /\ UNCHANGED <<step, password, twoFACode, sessionId, isLoading, error,
                 challengeType, challengeMetadata, requests>>

setPassword(v) ==
  /\ step = "password"
  /\ ~isLoading
  /\ password' = v
  /\ event' = Event("setPassword", TRUE, NoData)
  /\ UNCHANGED <<step, email, twoFACode, sessionId, isLoading, error,
                 challengeType, challengeMetadata, requests>>

\* Variant: only "APP" counts as a push challenge.
isPush_AppOnly == challengeType = "APP"

isPush == challengeType = "APP" \/ challengeType = "PUSH"

\* The second factor input is rendered only when the challenge is not a
\* push challenge.
setTwoFACode(v) ==
  /\ step = "2fa"
  /\ ~isPush
  /\ ~isLoading
  /\ twoFACode' = v
  /\ event' = Event("setTwoFACode", TRUE, NoData)
  /\ UNCHANGED <<step, email, password, sessionId, isLoading, error,
                 challengeType, challengeMetadata, requests>>

\* -------------------------------------------------------- render2FAStep
\* Variant: the two EMAIL branches are tested in the other order.
Presentation_EmailCodeFirst(type, metadata) ==
  LET isIdentityVerification ==
        type = "EMAIL"
          /\ Field(metadata, "officeVerificationStep") = "EMAIL_ADDRESS"
      isEmailOTP ==
        type = "EMAIL"
          /\ Field(metadata, "officeVerificationStep") = "EMAIL_OTP"
      push == type = "APP" \/ type = "PUSH"
      maskedEmail == Field(metadata, "maskedEmail")
      base == [title |-> "Verify your identity",
               description |-> "Please select a way to verify your identity.",
               inputPlaceholder |-> "Code",
               inputType |-> "text",
               inputRendered |-> ~push,
               hasCodeLink |-> "hasCodeLink" \in DOMAIN metadata]
  IN  IF isEmailOTP \/ type = "EMAIL"
      THEN [base EXCEPT
              !.title = "Enter code",
              !.description =
                 "We sent a code to your email. Please enter it below.",
              !.inputPlaceholder = "Code"]
      ELSE IF isIdentityVerification
      THEN [base EXCEPT
              !.title = "Help us protect your account",
              !.description =
                 IF Truthy(maskedEmail)
                 THEN "To verify this is your email address, enter it below. We'll send a code to "
                        \o maskedEmail \o " to verify your account."
                 ELSE "Please enter your full recovery email address to receive a verification code.",
              !.inputPlaceholder = "Email address",
              !.inputType = "email"]
      ELSE IF type = "SMS"
      THEN [base EXCEPT
              !.title = "Enter code",
              !.description =
                 "We sent a code to your phone. Please enter it below.",
              !.inputPlaceholder = "Code",
              !.inputType = "tel"]
      ELSE IF push
      THEN [base EXCEPT
              !.title = "Approve request",
              !.description =
                 "Check your Microsoft Authenticator app to approve the sign-in request."]
      ELSE base

\* What render2FAStep derives from a challenge type and its metadata: the
\* texts, the type of the input, whether the input is rendered at all and
\* whether the "I have a code" link is.
Presentation(type, metadata) ==
  LET isIdentityVerification ==
        type = "EMAIL"
          /\ Field(metadata, "officeVerificationStep") = "EMAIL_ADDRESS"
      isEmailOTP ==
        type = "EMAIL"
          /\ Field(metadata, "officeVerificationStep") = "EMAIL_OTP"
      push == type = "APP" \/ type = "PUSH"
      maskedEmail == Field(metadata, "maskedEmail")
      base == [title |-> "Verify your identity",
               description |-> "Please select a way to verify your identity.",
               inputPlaceholder |-> "Code",
               inputType |-> "text",
               inputRendered |-> ~push,
               hasCodeLink |-> "hasCodeLink" \in DOMAIN metadata]
  IN  IF isIdentityVerification
      THEN [base EXCEPT
              !.title = "Help us protect your account",
              !.description =
                 IF Truthy(maskedEmail)
                 THEN "To verify this is your email address, enter it below. We'll send a code to "
                        \o maskedEmail \o " to verify your account."
                 ELSE "Please enter your full recovery email address to receive a verification code.",
              !.inputPlaceholder = "Email address",
              !.inputType = "email"]
      ELSE IF isEmailOTP \/ type = "EMAIL"
      THEN [base EXCEPT
              !.title = "Enter code",
              !.description =
                 "We sent a code to your email. Please enter it below.",
              !.inputPlaceholder = "Code"]
      ELSE IF type = "SMS"
      THEN [base EXCEPT
              !.title = "Enter code",
              !.description =
                 "We sent a code to your phone. Please enter it below.",
              !.inputPlaceholder = "Code",
              !.inputType = "tel"]
      ELSE IF push
      THEN [base EXCEPT
              !.title = "Approve request",
              !.description =
                 "Check your Microsoft Authenticator app to approve the sign-in request."]
      ELSE base

\* The second factor screen as rendered from the current state.
render2FAStep == Presentation(challengeType, challengeMetadata)

\* ---------------------------------------------------- handleEmailSubmit
\* Variant: the guard forgets the isLoading check.
EmailSubmitAdmitted_NoGate == ~(Trim(email) = <<>>)

EmailSubmitAdmitted == ~(Trim(email) = <<>> \/ isLoading)

\* The form's onSubmit; the form is rendered at step "email".
handleEmailSubmit ==
  /\ step = "email"
  /\ IF EmailSubmitAdmitted
     THEN /\ isLoading' = TRUE
          /\ error' = Null
          /\ requests' = Append(requests,
                [endpoint |-> "initiate", body |-> [email |-> email]])
          /\ event' = Event("handleEmailSubmit", TRUE, NoData)
          /\ UNCHANGED <<step, email, password, twoFACode, sessionId,
                         challengeType, challengeMetadata>>
     ELSE /\ event' = Event("handleEmailSubmit", FALSE, NoData)
          /\ UNCHANGED <<progVars, requests>>

\* Variant: the status "authenticated" skips the password step.
StepAfterInitiate_AuthenticatedSkips(status) ==
  IF status = "authenticated" THEN "success" ELSE "password"

\* Variant: an unknown status does not advance.
StepAfterInitiate_OnlyKnownStatus(status) ==
  IF status = "requires_password" THEN "password" ELSE "email"

StepAfterInitiate(status) ==
  IF status = "requires_password" THEN "password" ELSE "password"

\* Variant: the success branch forgets setSessionId.
handleEmailSubmit_then_ForgetsSession(i, data) ==
  /\ requests[i].endpoint = "initiate"
  /\ IF data.success
     THEN /\ step' = StepAfterInitiate(data.status)
          /\ UNCHANGED error
     ELSE /\ error' = Or(data.message, "Failed to initiate login")
          /\ UNCHANGED step
  /\ isLoading' = FALSE
  /\ requests' = RemoveAt(requests, i)
  /\ event' = Event("handleEmailSubmit_then", TRUE, data)
  /\ UNCHANGED <<email, password, twoFACode, sessionId, challengeType,
                 challengeMetadata>>

\* Variant: setSessionId runs before the success check.
handleEmailSubmit_then_StoresAlways(i, data) ==
  /\ requests[i].endpoint = "initiate"
  /\ sessionId' = data.sessionId
  /\ IF data.success
     THEN /\ step' = StepAfterInitiate(data.status)
          /\ UNCHANGED error
     ELSE /\ error' = Or(data.message, "Failed to initiate login")
          /\ UNCHANGED step
  /\ isLoading' = FALSE
  /\ requests' = RemoveAt(requests, i)
  /\ event' = Event("handleEmailSubmit_then", TRUE, data)
  /\ UNCHANGED <<email, password, twoFACode, challengeType,
                 challengeMetadata>>

\* response.json() resolved with data
handleEmailSubmit_then(i, data) ==
  /\ requests[i].endpoint = "initiate"
  /\ IF data.success
     THEN /\ sessionId' = data.sessionId
          /\ step' = StepAfterInitiate(data.status)
          /\ UNCHANGED error
     ELSE /\ error' = Or(data.message, "Failed to initiate login")
          /\ UNCHANGED <<sessionId, step>>
  /\ isLoading' = FALSE
  /\ requests' = RemoveAt(requests, i)
  /\ event' = Event("handleEmailSubmit_then", TRUE, data)
  /\ UNCHANGED <<email, password, twoFACode, challengeType,
                 challengeMetadata>>

\* fetch or response.json() threw
handleEmailSubmit_catch(i) ==
  /\ requests[i].endpoint = "initiate"
  /\ error' = "An error occurred. Please try again."
  /\ isLoading' = FALSE
  /\ requests' = RemoveAt(requests, i)
  /\ event' = Event("handleEmailSubmit_catch", TRUE, NoData)
  /\ UNCHANGED <<step, email, password, twoFACode, sessionId, challengeType,
                 challengeMetadata>>

\* ------------------------------------------------- handlePasswordSubmit
PasswordSubmitAdmitted ==
  ~(Trim(password) = <<>> \/ isLoading \/ ~Truthy(sessionId))

\* Variant: the handler forgets setError(null).
handlePasswordSubmit_KeepsError ==
  /\ step = "password"
  /\ IF PasswordSubmitAdmitted
     THEN /\ isLoading' = TRUE
          /\ requests' = Append(requests,
                [endpoint |-> "password",
                 body |-> [sessionId |-> sessionId, password |-> password]])
          /\ event' = Event("handlePasswordSubmit", TRUE, NoData)
          /\ UNCHANGED <<step, email, password, twoFACode, sessionId, error,
                         challengeType, challengeMetadata>>
     ELSE /\ event' = Event("handlePasswordSubmit", FALSE, NoData)
          /\ UNCHANGED <<progVars, requests>>

handlePasswordSubmit ==
  /\ step = "password"
  /\ IF PasswordSubmitAdmitted
     THEN /\ isLoading' = TRUE
          /\ error' = Null
          /\ requests' = Append(requests,
                [endpoint |-> "password",
                 body |-> [sessionId |-> sessionId, password |-> password]])
          /\ event' = Event("handlePasswordSubmit", TRUE, NoData)
          /\ UNCHANGED <<step, email, password, twoFACode, sessionId,
                         challengeType, challengeMetadata>>
     ELSE /\ event' = Event("handlePasswordSubmit", FALSE, NoData)
          /\ UNCHANGED <<progVars, requests>>

\* Variant: a challenge is looked for only when success is true.
PasswordOutcome_NoChallengeOnFailure(data) ==
  IF data.success
  THEN IF Truthy(data.challengeType) THEN "challenge" ELSE "success"
  ELSE "rejected"

\* The branch of lines 81-101 taken for data:
\* "challenge", "success" or "rejected".
PasswordOutcome(data) ==
  IF data.success
  THEN IF Truthy(data.challengeType) THEN "challenge"
       ELSE IF data.status = "authenticated" \/ data.status = "completed"
            THEN "success"
            ELSE "success"
  ELSE IF Truthy(data.challengeType) THEN "challenge" ELSE "rejected"

\* Variant: the rejected branch does not reset the password.
handlePasswordSubmit_then_KeepsPassword(i, data) ==
  /\ requests[i].endpoint = "password"
  /\ CASE PasswordOutcome(data) = "challenge" ->
            /\ challengeType' = data.challengeType
            /\ challengeMetadata' = OrNull(data.challengeMetadata)
            /\ step' = "2fa"
            /\ UNCHANGED error
       [] PasswordOutcome(data) = "success" ->
            /\ step' = "success"
            /\ UNCHANGED <<challengeType, challengeMetadata, error>>
       [] OTHER ->
            /\ error' = Or(data.message, "Invalid password or login failed")
            /\ UNCHANGED <<challengeType, challengeMetadata, step>>
  /\ isLoading' = FALSE
  /\ requests' = RemoveAt(requests, i)
  /\ event' = Event("handlePasswordSubmit_then", TRUE, data)
  /\ UNCHANGED <<email, password, twoFACode, sessionId>>

handlePasswordSubmit_then(i, data) ==
  /\ requests[i].endpoint = "password"
  /\ CASE PasswordOutcome(data) = "challenge" ->
            /\ challengeType' = data.challengeType
            /\ challengeMetadata' = OrNull(data.challengeMetadata)
            /\ step' = "2fa"
            /\ UNCHANGED <<error, password>>
       [] PasswordOutcome(data) = "success" ->
            /\ step' = "success"
            /\ UNCHANGED <<challengeType, challengeMetadata, error, password>>
       [] OTHER ->
            /\ error' = Or(data.message, "Invalid password or login failed")
            /\ password' = <<>>
            /\ UNCHANGED <<challengeType, challengeMetadata, step>>
  /\ isLoading' = FALSE
  /\ requests' = RemoveAt(requests, i)
  /\ event' = Event("handlePasswordSubmit_then", TRUE, data)
  /\ UNCHANGED <<email, twoFACode, sessionId>>

\* Variant: the catch block resets the password as the rejected branch does.
handlePasswordSubmit_catch_ClearsPassword(i) ==
  /\ requests[i].endpoint = "password"
  /\ error' = "An error occurred. Please try again."
  /\ password' = <<>>
  /\ isLoading' = FALSE
  /\ requests' = RemoveAt(requests, i)
  /\ event' = Event("handlePasswordSubmit_catch", TRUE, NoData)
  /\ UNCHANGED <<step, email, twoFACode, sessionId, challengeType,
                 challengeMetadata>>

handlePasswordSubmit_catch(i) ==
  /\ requests[i].endpoint = "password"
  /\ error' = "An error occurred. Please try again."
  /\ isLoading' = FALSE
  /\ requests' = RemoveAt(requests, i)
  /\ event' = Event("handlePasswordSubmit_catch", TRUE, NoData)
  /\ UNCHANGED <<step, email, password, twoFACode, sessionId, challengeType,
                 challengeMetadata>>

\* ------------------------------------------------------ handle2FASubmit
\* Variant: the second guard forgets the isLoading check.
TwoFASubmitAdmitted_NoGate ==
  /\ ~(~isPush /\ Trim(twoFACode) = <<>>)
  /\ ~(~Truthy(sessionId))

TwoFASubmitAdmitted ==
  /\ ~(~isPush /\ Trim(twoFACode) = <<>>)
  /\ ~(isLoading \/ ~Truthy(sessionId))

handle2FASubmit ==
  /\ step = "2fa"
  /\ IF TwoFASubmitAdmitted
     THEN /\ isLoading' = TRUE
          /\ error' = Null
          /\ requests' = Append(requests,
                [endpoint |-> "2fa",
                 body |-> [sessionId |-> sessionId, code |-> twoFACode]])
          /\ event' = Event("handle2FASubmit", TRUE, NoData)
          /\ UNCHANGED <<step, email, password, twoFACode, sessionId,
                         challengeType, challengeMetadata>>
     ELSE /\ event' = Event("handle2FASubmit", FALSE, NoData)
          /\ UNCHANGED <<progVars, requests>>

\* The branch of lines 133-145 taken for data:
\* "success", "challenge" or "rejected".
TwoFAOutcome(data) ==
  IF data.success THEN "success"
  ELSE IF Truthy(data.challengeType) THEN "challenge" ELSE "rejected"

\* Variant: the metadata is replaced only when the response supplies one.
handle2FASubmit_then_KeepsMetadata(i, data) ==
  /\ requests[i].endpoint = "2fa"
  /\ CASE TwoFAOutcome(data) = "success" ->
            /\ step' = "success"
            /\ UNCHANGED <<challengeType, challengeMetadata, twoFACode, error>>
       [] TwoFAOutcome(data) = "challenge" ->
            /\ challengeType' = data.challengeType
            /\ challengeMetadata' =
                 IF data.challengeMetadata = NullMetadata
                 THEN challengeMetadata
                 ELSE data.challengeMetadata
            /\ twoFACode' = <<>>
            /\ error' = IF Truthy(data.message) THEN data.message ELSE error
            /\ UNCHANGED step
       [] OTHER ->
            /\ error' = Or(data.message, "Invalid code")
            /\ UNCHANGED <<challengeType, challengeMetadata, twoFACode, step>>
  /\ isLoading' = FALSE
  /\ requests' = RemoveAt(requests, i)
  /\ event' = Event("handle2FASubmit_then", TRUE, data)
  /\ UNCHANGED <<email, password, sessionId>>

\* Variant: the rejected branch resets the code as the password handler does.
handle2FASubmit_then_ClearsCode(i, data) ==
  /\ requests[i].endpoint = "2fa"
  /\ CASE TwoFAOutcome(data) = "success" ->
            /\ step' = "success"
            /\ UNCHANGED <<challengeType, challengeMetadata, twoFACode, error>>
       [] TwoFAOutcome(data) = "challenge" ->
            /\ challengeType' = data.challengeType
            /\ challengeMetadata' = OrNull(data.challengeMetadata)
            /\ twoFACode' = <<>>
            /\ error' = IF Truthy(data.message) THEN data.message ELSE error
            /\ UNCHANGED step
       [] OTHER ->
            /\ error' = Or(data.message, "Invalid code")
            /\ twoFACode' = <<>>
            /\ UNCHANGED <<challengeType, challengeMetadata, step>>
  /\ isLoading' = FALSE
  /\ requests' = RemoveAt(requests, i)
  /\ event' = Event("handle2FASubmit_then", TRUE, data)
  /\ UNCHANGED <<email, password, sessionId>>

handle2FASubmit_then(i, data) ==
  /\ requests[i].endpoint = "2fa"
  /\ CASE TwoFAOutcome(data) = "success" ->
            /\ step' = "success"
            /\ UNCHANGED <<challengeType, challengeMetadata, twoFACode, error>>
       [] TwoFAOutcome(data) = "challenge" ->
            /\ challengeType' = data.challengeType
            /\ challengeMetadata' = OrNull(data.challengeMetadata)
            /\ twoFACode' = <<>>
            /\ error' = IF Truthy(data.message) THEN data.message ELSE error
            /\ UNCHANGED step
       [] OTHER ->
            /\ error' = Or(data.message, "Invalid code")
            /\ UNCHANGED <<challengeType, challengeMetadata, twoFACode, step>>
  /\ isLoading' = FALSE
  /\ requests' = RemoveAt(requests, i)
  /\ event' = Event("handle2FASubmit_then", TRUE, data)
  /\ UNCHANGED <<email, password, sessionId>>

\* Variant: setIsLoading(false) is missing from the failure path.
handle2FASubmit_catch_StaysLoading(i) ==
  /\ requests[i].endpoint = "2fa"
  /\ error' = "An error occurred. Please try again."
  /\ requests' = RemoveAt(requests, i)
  /\ event' = Event("handle2FASubmit_catch", TRUE, NoData)
  /\ UNCHANGED <<step, email, password, twoFACode, sessionId, isLoading,
                 challengeType, challengeMetadata>>

handle2FASubmit_catch(i) ==
  /\ requests[i].endpoint = "2fa"
  /\ error' = "An error occurred. Please try again."
  /\ isLoading' = FALSE
  /\ requests' = RemoveAt(requests, i)
  /\ event' = Event("handle2FASubmit_catch", TRUE, NoData)
  /\ UNCHANGED <<step, email, password, twoFACode, sessionId, challengeType,
                 challengeMetadata>>

\* ----------------------------------------------------------- handleBack
\* Variant: setError(null) is called inside the two branches only.
handleBack_ClearsErrorInBranches ==
  /\ IF step = "password"
     THEN /\ step' = "email"
          /\ password' = <<>>
          /\ error' = Null
          /\ UNCHANGED twoFACode
     ELSE IF step = "2fa"
          THEN /\ step' = "password"
               /\ twoFACode' = <<>>
               /\ error' = Null
               /\ UNCHANGED password
          ELSE UNCHANGED <<step, password, twoFACode, error>>
  /\ event' = Event("handleBack", TRUE, NoData)
  /\ UNCHANGED <<email, sessionId, isLoading, challengeType,
                 challengeMetadata, requests>>

\* Variant: the "2fa" branch forgets setTwoFACode("").
handleBack_KeepsCode ==
  /\ IF step = "password"
     THEN /\ step' = "email"
          /\ password' = <<>>
     ELSE IF step = "2fa"
          THEN /\ step' = "password"
               /\ UNCHANGED password
          ELSE UNCHANGED <<step, password>>
  /\ error' = Null
  /\ event' = Event("handleBack", TRUE, NoData)
  /\ UNCHANGED <<email, twoFACode, sessionId, isLoading, challengeType,
                 challengeMetadata, requests>>

\* The function handleBack, called in any state.
handleBack ==
  /\ IF step = "password"
     THEN /\ step' = "email"
          /\ password' = <<>>
          /\ UNCHANGED twoFACode
     ELSE IF step = "2fa"
          THEN /\ step' = "password"
               /\ twoFACode' = <<>>
               /\ UNCHANGED password
          ELSE UNCHANGED <<step, password, twoFACode>>
  /\ error' = Null
  /\ event' = Event("handleBack", TRUE, NoData)
  /\ UNCHANGED <<email, sessionId, isLoading, challengeType,
                 challengeMetadata, requests>>

\* Variant: the back button is not disabled while isLoading.
BackButtonEnabled_IgnoresLoading == step = "password" \/ step = "2fa"

\* The back button is rendered at steps "password" and "2fa" and is
\* disabled while isLoading.
BackButtonEnabled == (step = "password" \/ step = "2fa") /\ ~isLoading

\* A click on the back button: its onClick is handleBack.
clickBack == BackButtonEnabled /\ handleBack

\* ------------------------------------------------------------------ Next
Next ==
  \/ \E v \in Texts : setEmail(v)
  \/ \E v \in Texts : setPassword(v)
  \/ \E v \in Texts : setTwoFACode(v)
  \/ handleEmailSubmit
  \/ \E i \in 1..Len(requests), data \in InitiateResponses :
       handleEmailSubmit_then(i, data)
  \/ \E i \in 1..Len(requests) : handleEmailSubmit_catch(i)
  \/ handlePasswordSubmit
  \/ \E i \in 1..Len(requests), data \in PasswordResponses :
       handlePasswordSubmit_then(i, data)
  \/ \E i \in 1..Len(requests) : handlePasswordSubmit_catch(i)
  \/ handle2FASubmit
  \/ \E i \in 1..Len(requests), data \in TwoFAResponses :
       handle2FASubmit_then(i, data)
  \/ \E i \in 1..Len(requests) : handle2FASubmit_catch(i)
  \/ clickBack

Spec == Init /\ [][Next]_vars

\* Some outstanding request completes: its response is processed or its
\* failure is caught.
Respond ==
  \E i \in 1..Len(requests) :
    \/ \E data \in InitiateResponses : handleEmailSubmit_then(i, data)
    \/ handleEmailSubmit_catch(i)
    \/ \E data \in PasswordResponses : handlePasswordSubmit_then(i, data)
    \/ handlePasswordSubmit_catch(i)
    \/ \E data \in TwoFAResponses : handle2FASubmit_then(i, data)
    \/ handle2FASubmit_catch(i)

\* Every issued request eventually completes.
FairSpec == Spec /\ WF_vars(Respond)

\* The handlers as functions: besides the steps of Next, handleBack is
\* called directly, whatever the step and whether or not a request is
\* outstanding.
NextDirect ==
  \/ Next
  \/ handleBack

SpecDirect == Init /\ [][NextDirect]_vars

\* ================================================================ claims
SubmitOps == {"handleEmailSubmit", "handlePasswordSubmit", "handle2FASubmit"}

\* The response the last step processed had success = false and named no
\* challenge.
Rejection(e) == ~e.data.success /\ ~Truthy(e.data.challengeType)

\* C1 (as stated): the session id is set if and only if step is not "email".
C1_SessionIffNotEmail == Truthy(sessionId) <=> step # "email"

\* C1 (amended): whenever step is not "email" the session id is set; the
\* converse fails because handleBack to "email" keeps the session id.
C1_SessionSetOutsideEmail == step # "email" => Truthy(sessionId)

C1_Witness ==
  /\ event.op = "handleBack"
  /\ step = "password"
  /\ Truthy(sessionId)

\* C2: the challenge is set if and only if step is "2fa".
C2_ChallengeIffTwoFA ==
  (Truthy(challengeType) \/ challengeMetadata # NullMetadata) <=> step = "2fa"

\* C3: at most one request is outstanding, and isLoading is true exactly
\* when one is.
C3_OneRequestIffLoading ==
  /\ Len(requests) <= 1
  /\ isLoading <=> Len(requests) = 1

C3_Witness ==
  /\ isLoading
  /\ Len(requests) = 1
  /\ requests[1].endpoint = "password"
  /\ event.op = "handlePasswordSubmit"
  /\ ~event.admitted

\* C4: a submit handler invoked while isLoading issues no request and
\* changes no state of the component.
C4_SubmitWhileLoadingIsNoOp ==
  [][(isLoading /\ event'.op \in SubmitOps)
       => UNCHANGED <<progVars, requests>>]_vars

C4_Witness ==
  /\ isLoading
  /\ event.op = "handle2FASubmit"
  /\ ~event.admitted
  /\ requests = <<[endpoint |-> "2fa",
                   body |-> [sessionId |-> sessionId, code |-> twoFACode]]>>

\* C5 (as stated): every password or 2fa response that carries a
\* challengeType ends at step "2fa" with that challenge stored, whatever its
\* success flag.
C5_ChallengeAlwaysWins ==
  (/\ event.op \in {"handlePasswordSubmit_then", "handle2FASubmit_then"}
   /\ Truthy(event.data.challengeType))
    => /\ step = "2fa"
       /\ challengeType = event.data.challengeType
       /\ challengeMetadata = event.data.challengeMetadata

\* C5 (amended): a password response that carries a challengeType ends at
\* step "2fa" with that challenge stored for both values of success; a 2fa
\* response does so only when success is false, and with success true it
\* ends at "success" and leaves the stored challenge alone.
C5_ChallengePrecedence ==
  [][/\ (/\ event'.op = "handlePasswordSubmit_then"
         /\ Truthy(event'.data.challengeType))
          => /\ step' = "2fa"
             /\ challengeType' = event'.data.challengeType
             /\ challengeMetadata' = event'.data.challengeMetadata
     /\ (/\ event'.op = "handle2FASubmit_then"
         /\ Truthy(event'.data.challengeType)
         /\ ~event'.data.success)
          => /\ step' = "2fa"
             /\ challengeType' = event'.data.challengeType
             /\ challengeMetadata' = event'.data.challengeMetadata
     /\ (/\ event'.op = "handle2FASubmit_then"
         /\ event'.data.success)
          => /\ step' = "success"
             /\ UNCHANGED <<challengeType, challengeMetadata>>]_vars

C5_Witness ==
  /\ event.op = "handlePasswordSubmit_then"
  /\ ~event.data.success
  /\ event.data.challengeType = "SMS"
  /\ step = "2fa"
  /\ challengeType = "SMS"

\* C6 (as stated): once set, the session id never changes.
C6_SessionImmutable == [][Truthy(sessionId) => sessionId' = sessionId]_vars

\* C6 (amended): the session id changes only when a successful initiate
\* response is processed, which stores the sessionId of that response.
C6_SessionChangedOnlyByInitiate ==
  [][sessionId' # sessionId
       => /\ event'.op = "handleEmailSubmit_then"
          /\ event'.data.success
          /\ sessionId' = event'.data.sessionId]_vars

\* A second successful initiate: the challenge of the earlier attempt is
\* still stored.
C6_Witness ==
  /\ event.op = "handleEmailSubmit_then"
  /\ event.data.success
  /\ sessionId = event.data.sessionId
  /\ Truthy(challengeType)

\* C7: a successful initiate response, whatever its status, takes step from
\* "email" to "password" and stores its sessionId; every initiate request
\* carries a non-blank identifier; step is "password" only with a session id.
C7_InitiateSuccess ==
  /\ [](step = "password" => Truthy(sessionId))
  /\ [](\A i \in 1..Len(requests) :
          requests[i].endpoint = "initiate"
            => Trim(requests[i].body.email) # <<>>)
  /\ [][(event'.op = "handleEmailSubmit_then" /\ event'.data.success)
          => /\ step = "email"
             /\ step' = "password"
             /\ sessionId' = event'.data.sessionId]_vars

C7_Witness ==
  /\ event.op = "handleEmailSubmit_then"
  /\ event.data.success
  /\ event.data.status = "authenticated"
  /\ step = "password"
  /\ sessionId = event.data.sessionId

\* C8: handleBack at step "2fa" clears twoFACode and the challenge and
\* leads to step "password" with an empty password.
C8_BackFromTwoFA ==
  [][(step = "2fa" /\ event'.op = "handleBack")
       => /\ step' = "password"
          /\ twoFACode' = <<>>
          /\ challengeType' = Null
          /\ challengeMetadata' = NullMetadata
          /\ password' = <<>>]_vars

\* C9: a password response with success = false and no challengeType clears
\* the password, sets error to the message of the response or else to
\* "Invalid password or login failed", keeps step at "password" and leaves
\* email and sessionId as they were.
C9_PasswordRejection ==
  [][(event'.op = "handlePasswordSubmit_then" /\ Rejection(event'))
       => /\ password' = <<>>
          /\ error' = IF event'.data.message \in {Null, ""}
                      THEN "Invalid password or login failed"
                      ELSE event'.data.message
          /\ step = "password"
          /\ step' = "password"
          /\ email' = email
          /\ sessionId' = sessionId]_vars

C9_Witness ==
  /\ event.op = "handlePasswordSubmit_then"
  /\ Rejection(event)
  /\ event.data.message = "wrong"
  /\ error = "wrong"
  /\ password = <<>>
  /\ step = "password"

\* C10 (as stated): a 2fa response with success = false and no
\* challengeType clears twoFACode and does not clear email.
C10_TwoFARejectionClearsCode ==
  [][(event'.op = "handle2FASubmit_then" /\ Rejection(event'))
       => /\ twoFACode' = <<>>
          /\ email' = email]_vars

\* C10 (amended): a 2fa response with success = false and no challengeType
\* leaves twoFACode as submitted, sets error to the message of the response
\* or else to "Invalid code", stays at "2fa" and does not clear email.
C10_TwoFARejectionKeepsCode ==
  [][(event'.op = "handle2FASubmit_then" /\ Rejection(event'))
       => /\ twoFACode' = twoFACode
          /\ error' = IF event'.data.message \in {Null, ""}
                      THEN "Invalid code"
                      ELSE event'.data.message
          /\ step = "2fa"
          /\ step' = "2fa"
          /\ email' = email
          /\ Trim(email') # <<>>]_vars

C10_Witness ==
  /\ event.op = "handle2FASubmit_then"
  /\ Rejection(event)
  /\ twoFACode = <<"a">>
  /\ error = "Invalid code"
  /\ step = "2fa"

CatchOps == {"handleEmailSubmit_catch", "handlePasswordSubmit_catch",
             "handle2FASubmit_catch"}

ThenOps == {"handleEmailSubmit_then", "handlePasswordSubmit_then",
            "handle2FASubmit_then"}

\* The component is at the step, and holds the data, with which request r
\* was issued.
AsIssued(r) ==
  CASE r.endpoint = "initiate" ->
         step = "email" /\ r.body.email = email
    [] r.endpoint = "password" ->
         /\ step = "password"
         /\ r.body.password = password
         /\ r.body.sessionId = sessionId
    [] r.endpoint = "2fa" ->
         /\ step = "2fa"
         /\ r.body.code = twoFACode
         /\ r.body.sessionId = sessionId

\* C11: a transport failure of any of the three calls sets error to the
\* generic retry message and isLoading to false, and leaves step, sessionId,
\* email, password, twoFACode and the challenge as they were, which is as
\* they were when the request was issued.
C11_TransportFailure ==
  [][event'.op \in CatchOps
       => /\ error' = "An error occurred. Please try again."
          /\ isLoading' = FALSE
          /\ UNCHANGED <<step, sessionId, email, password, twoFACode,
                         challengeType, challengeMetadata>>
          /\ \A i \in 1..Len(requests) : AsIssued(requests[i])]_vars

C11_Witness ==
  /\ event.op = "handlePasswordSubmit_catch"
  /\ error = "An error occurred. Please try again."
  /\ ~isLoading
  /\ step = "password"
  /\ password = <<"a">>
  /\ requests = <<>>

\* C12: handleBack issues no request and does not change isLoading, always
\* sets error to null, changes nothing else when called at step "email" or
\* "success", and never changes email or sessionId.
C12_BackFrame ==
  [][event'.op = "handleBack"
       => /\ requests' = requests
          /\ isLoading' = isLoading
          /\ error' = Null
          /\ email' = email
          /\ sessionId' = sessionId
          /\ (step \in {"email", "success"}
                => UNCHANGED <<step, password, twoFACode, challengeType,
                               challengeMetadata>>)]_vars

\* handleBack was called at step "success".
C12_Witness ==
  /\ event.op = "handleBack"
  /\ step = "success"
  /\ error = Null

\* C13: handle2FASubmit with an empty or blank code and no request
\* outstanding issues the call if the challenge type is "APP" or "PUSH", and
\* otherwise returns without a call or a state change.
C13_EmptyCodeOnlyForPush ==
  [][(event'.op = "handle2FASubmit" /\ Trim(twoFACode) = <<>> /\ ~isLoading)
       => IF challengeType \in {"APP", "PUSH"}
          THEN /\ requests' = Append(requests,
                     [endpoint |-> "2fa",
                      body |-> [sessionId |-> sessionId, code |-> twoFACode]])
               /\ isLoading'
               /\ Truthy(sessionId)
          ELSE UNCHANGED <<progVars, requests>>]_vars

C13_Witness ==
  /\ event.op = "handle2FASubmit"
  /\ event.admitted
  /\ challengeType = "PUSH"
  /\ isLoading
  /\ Len(requests) = 1
  /\ requests[1].body.code = <<>>

\* The last step reported an error: a response that was not a success and
\* named no challenge, or a transport failure.
ErrorEvent(e) ==
  \/ e.op \in CatchOps
  \/ e.op = "handleEmailSubmit_then" /\ ~e.data.success
  \/ e.op \in {"handlePasswordSubmit_then", "handle2FASubmit_then"}
       /\ Rejection(e)

\* C14: every response and every transport failure leaves isLoading false;
\* an error leaves step where it was, at "email", "password" or "2fa", with
\* the submit of that step admitted as soon as its input is not blank (or at
\* once for a push challenge) and the input usable; and if every request
\* completes, isLoading always becomes false again.
C14_ErrorsNonFatal ==
  /\ [][event'.op \in ThenOps \cup CatchOps => ~isLoading']_vars
  /\ [][ErrorEvent(event')
          => /\ step' = step
             /\ step \in {"email", "password", "2fa"}
             /\ ~isLoading'
             /\ requests' = <<>>
             /\ (step = "email"
                   => (EmailSubmitAdmitted' <=> Trim(email') # <<>>))
             /\ (step = "password"
                   => (PasswordSubmitAdmitted' <=> Trim(password') # <<>>))
             /\ (step = "2fa"
                   => (TwoFASubmitAdmitted'
                         <=> (challengeType' \in {"APP", "PUSH"}
                                \/ Trim(twoFACode') # <<>>)))]_vars
  /\ (isLoading ~> ~isLoading)

C14_Witness ==
  /\ event.op = "handle2FASubmit_catch"
  /\ step = "2fa"
  /\ ~isLoading
  /\ challengeType = "SMS"
  /\ twoFACode = <<"a">>
  /\ TwoFASubmitAdmitted

\* C15 (as stated): every call of a submit handler and every call of
\* handleBack sets error to null.
C15_ErrorClearedOnEveryAttempt ==
  [][event'.op \in SubmitOps \cup {"handleBack"} => error' = Null]_vars

\* C15 (amended): a submit that issues a request and every handleBack set
\* error to null, and error stays null while the request is outstanding; a
\* submit that its guard rejects leaves error as it was.
C15_ErrorClearedOnAdmittedAttempt ==
  /\ [](isLoading => error = Null)
  /\ [][(\/ event'.op \in SubmitOps /\ requests' # requests
         \/ event'.op = "handleBack")
          => error' = Null]_vars
  /\ [][(event'.op \in SubmitOps /\ requests' = requests)
          => error' = error]_vars

\* A submit with a blank password after a rejection: the message is still
\* there.
C15_Witness ==
  /\ event.op = "handlePasswordSubmit"
  /\ ~event.admitted
  /\ ~isLoading
  /\ password = <<>>
  /\ error = "wrong"

\* C16: handlePasswordSubmit takes every response to the state of the
\* ordered classification: challengeType present -> step "2fa" with the
\* challenge stored and twoFACode empty; else success -> step "success";
\* else -> step "password" with an error and the password cleared.
C16_PasswordClassification ==
  [][event'.op = "handlePasswordSubmit_then"
       => LET d == event'.data IN
          /\ step = "password"
          /\ ~isLoading'
          /\ UNCHANGED <<email, sessionId>>
          /\ IF d.challengeType # Null
             THEN /\ step' = "2fa"
                  /\ challengeType' = d.challengeType
                  /\ challengeMetadata' = d.challengeMetadata
                  /\ twoFACode' = <<>>
                  /\ UNCHANGED <<password, error>>
             ELSE IF d.success
             THEN /\ step' = "success"
                  /\ UNCHANGED <<password, error, twoFACode, challengeType,
                                 challengeMetadata>>
             ELSE /\ step' = "password"
                  /\ error' = IF d.message \in {Null, ""}
                              THEN "Invalid password or login failed"
                              ELSE d.message
                  /\ password' = <<>>
                  /\ UNCHANGED <<twoFACode, challengeType,
                                 challengeMetadata>>]_vars

\* A challenge with success = true, after an earlier visit of step "2fa".
C16_Witness ==
  /\ event.op = "handlePasswordSubmit_then"
  /\ event.data.success
  /\ event.data.challengeType = "APP"
  /\ event.data.status = "authenticated"
  /\ step = "2fa"
  /\ challengeType = "APP"
  /\ twoFACode = <<>>

\* C17: handle2FASubmit takes every response to the state of the
\* classification: success -> step "success"; else challengeType present ->
\* type and metadata replaced (metadata null if the response has none),
\* twoFACode cleared, step still "2fa"; else -> error set to the message or
\* "Invalid code", step still "2fa".
C17_TwoFAClassification ==
  [][event'.op = "handle2FASubmit_then"
       => LET d == event'.data IN
          /\ step = "2fa"
          /\ ~isLoading'
          /\ UNCHANGED <<email, sessionId, password>>
          /\ IF d.success
             THEN /\ step' = "success"
             ELSE IF d.challengeType # Null
             THEN /\ step' = "2fa"
                  /\ challengeType' = d.challengeType
                  /\ challengeMetadata' = d.challengeMetadata
                  /\ twoFACode' = <<>>
             ELSE /\ step' = "2fa"
                  /\ error' = IF d.message \in {Null, ""}
                              THEN "Invalid code"
                              ELSE d.message
                  /\ UNCHANGED <<challengeType, challengeMetadata>>]_vars

\* A chained challenge without metadata replaces a challenge that had some.
C17_Witness ==
  /\ event.op = "handle2FASubmit_then"
  /\ ~event.data.success
  /\ event.data.challengeType = "EMAIL"
  /\ event.data.challengeMetadata = NullMetadata
  /\ step = "2fa"
  /\ challengeType = "EMAIL"
  /\ challengeMetadata = NullMetadata
  /\ twoFACode = <<>>
  /\ error = "wrong"

\* C18: step changes only along email -> password (successful initiate),
\* password -> 2fa, password -> success, 2fa -> success (responses) and
\* password -> email, 2fa -> password (handleBack); once "success", step
\* stays "success".
C18_StepEdges ==
  /\ [][step' # step
          => \/ /\ step = "email" /\ step' = "password"
                /\ event'.op = "handleEmailSubmit_then"
                /\ event'.data.success
             \/ /\ step = "password" /\ step' \in {"2fa", "success"}
                /\ event'.op = "handlePasswordSubmit_then"
             \/ /\ step = "2fa" /\ step' = "success"
                /\ event'.op = "handle2FASubmit_then"
             \/ /\ step = "password" /\ step' = "email"
                /\ event'.op = "handleBack"
             \/ /\ step = "2fa" /\ step' = "password"
                /\ event'.op = "handleBack"]_vars
  /\ [][step = "success" => step' = "success"]_vars

C18_Witness ==
  /\ step = "success"
  /\ event.op = "handlePasswordSubmit_then"
  /\ event.data.challengeType = Null

UserOps == SubmitOps \cup {"handleBack", "setEmail", "setPassword",
                           "setTwoFACode"}

\* C19: while a request is outstanding no input, submit or back click
\* changes step, email, password, twoFACode or the challenge, so the
\* component stays at the step and with the data of the request until its
\* response is processed.
C19_FrozenWhileLoading ==
  /\ [](\A i \in 1..Len(requests) : AsIssued(requests[i]))
  /\ [][(isLoading /\ event'.op \in UserOps)
          => UNCHANGED <<step, email, password, twoFACode, challengeType,
                         challengeMetadata>>]_vars
  /\ [][event'.op \in ThenOps
          => /\ Len(requests) = 1
             /\ AsIssued(requests[1])
             /\ step' # step => step = (CASE event'.op = "handleEmailSubmit_then" -> "email"
                                          [] event'.op = "handlePasswordSubmit_then" -> "password"
                                          [] OTHER -> "2fa")]_vars

C19_Witness ==
  /\ isLoading
  /\ event.op = "handleEmailSubmit"
  /\ ~event.admitted
  /\ step = "email"
  /\ Len(requests) = 1
  /\ requests[1].body.email = email

\* C20: the presentation depends on the challenge type and metadata by the
\* rules in order: EMAIL with sub-stage EMAIL_ADDRESS -> email address
\* input; any other EMAIL -> code input; SMS -> tel code input; APP or PUSH
\* -> no input; any other type -> generic code input. The input is rendered
\* for every type but APP and PUSH, and at step "2fa" with no request
\* outstanding a submit is admitted once the rendered input is not blank,
\* or at once when no input is rendered.
C20_Presentation ==
  step = "2fa" =>
    LET v == render2FAStep
        sub == IF "officeVerificationStep" \in DOMAIN challengeMetadata
               THEN challengeMetadata.officeVerificationStep
               ELSE Null
    IN
    /\ (challengeType = "EMAIL" /\ sub = "EMAIL_ADDRESS")
          => /\ v.inputType = "email"
             /\ v.inputPlaceholder = "Email address"
             /\ v.title = "Help us protect your account"
    /\ (challengeType = "EMAIL" /\ sub # "EMAIL_ADDRESS")
          => /\ v.inputType = "text"
             /\ v.inputPlaceholder = "Code"
             /\ v.title = "Enter code"
    /\ challengeType = "SMS"
          => /\ v.inputType = "tel"
             /\ v.inputPlaceholder = "Code"
             /\ v.title = "Enter code"
    /\ challengeType \in {"APP", "PUSH"}
          => /\ ~v.inputRendered
             /\ v.title = "Approve request"
    /\ challengeType \notin {"EMAIL", "SMS", "APP", "PUSH"}
          => /\ v.inputType = "text"
             /\ v.inputPlaceholder = "Code"
             /\ v.title = "Verify your identity"
    /\ v.inputRendered <=> challengeType \notin {"APP", "PUSH"}
    /\ ~isLoading
          => IF v.inputRendered
             THEN /\ ENABLED setTwoFACode(<<"a">>)
                  /\ Trim(twoFACode) # <<>> => TwoFASubmitAdmitted
             ELSE TwoFASubmitAdmitted

\* An unrecognized challenge type with a code typed in.
C20_Witness ==
  /\ step = "2fa"
  /\ challengeType = "FIDO"
  /\ ~isLoading
  /\ twoFACode = <<"a">>
  /\ render2FAStep.inputRendered
  /\ TwoFASubmitAdmitted

====
